---- MODULE Spec2Model ----
(***************************************************************************)
(* Model of data_quality_auditor_v1_STABLE_030126.py: the four field       *)
(* validators, the severity aggregator, the exporters, the exit code       *)
(* resolver and the main pipeline with its top-level exception handler.    *)
(*                                                                         *)
(* Python strings are sequences of one-character tokens.  The token "sup2" *)
(* stands for U+00B2 (SUPERSCRIPT TWO): str.isdigit() accepts it, int()    *)
(* rejects it with ValueError.  A Python value that is either a str, an    *)
(* int or None is a record [t, s, n] tagged by t.  A dict is a function    *)
(* whose DOMAIN is its key set, so dicts with different keys differ.       *)
(***************************************************************************)
EXTENDS Integers, Sequences, FiniteSets, TLC

VARIABLES
    pc,               \* the statement of main() / the __main__ block to run next
    input,            \* the file at args.input: its status and its data rows
    args,             \* the parsed command line
    today,            \* date.today()
    records,          \* main: records
    all_issues,       \* main: all_issues
    summary,          \* main: summary
    filtered_issues,  \* main: filtered_issues
    csv_file,         \* the file at args.output_csv
    json_file,        \* the file at args.output_json
    stdout,           \* the lines printed
    exit_code,        \* <<>> while running, <<status>> after sys.exit(status)
    raised_in,        \* the call whose exception reached the __main__ handler
    called,           \* the function applied, when one is applied on its own
    ret               \* its return value

vars == <<pc, input, args, today, records, all_issues, summary,
          filtered_issues, csv_file, json_file, stdout, exit_code,
          raised_in, called, ret>>

(***************************************************************************)
(* Bounds of the model.                                                    *)
(***************************************************************************)
MaxRecords == 2

MaxLen == 3

MaxIssues == 3

(***************************************************************************)
(* Module-level constants.                                                 *)
(***************************************************************************)
EXIT_OK == 0

EXIT_WARNING == 5

EXIT_ISSUES_FOUND == 10

EXIT_INPUT_ERROR == 20

EXIT_INTERNAL_ERROR == 30

SEVERITY_RANK == [info |-> 1, warning |-> 2, error |-> 3]

Levels == {"info", "warning", "error"}

(***************************************************************************)
(* Python values.                                                          *)
(***************************************************************************)
PyStr(s) == [t |-> "str", s |-> s, n |-> 0]

PyInt(n) == [t |-> "int", s |-> <<>>, n |-> n]

None == [t |-> "none", s |-> <<>>, n |-> 0]

NoExc == "none"

Ok(issues) == [raised |-> NoExc, issues |-> issues]

Raise(exc) == [raised |-> exc, issues |-> <<>>]

\* dict.get(key, default)
Get(d, key, default) == IF key \in DOMAIN d THEN d[key] ELSE default

(***************************************************************************)
(* str methods.                                                            *)
(***************************************************************************)
Whitespace == {" "}

AsciiDigits == {"0", "1", "2", "3", "4", "5", "6", "7", "8", "9"}

\* characters str.isdigit() accepts (Unicode Nd and the superscript digits)
IsDigitChars == AsciiDigits \cup {"sup2"}

SetMin(S) == CHOOSE x \in S : \A y \in S : x <= y

SetMax(S) == CHOOSE x \in S : \A y \in S : x >= y

\* str.strip()
strip(s) ==
    LET keep == {i \in 1..Len(s) : s[i] \notin Whitespace}
    IN  IF keep = {} THEN <<>> ELSE SubSeq(s, SetMin(keep), SetMax(keep))

\* str.count(c) for a one-character c
count(s, c) == Cardinality({i \in 1..Len(s) : s[i] = c})

\* str.isdigit()
isdigit(s) == s /= <<>> /\ \A i \in 1..Len(s) : s[i] \in IsDigitChars

DigitValue(c) ==
    CASE c = "0" -> 0 [] c = "1" -> 1 [] c = "2" -> 2 [] c = "3" -> 3
      [] c = "4" -> 4 [] c = "5" -> 5 [] c = "6" -> 6 [] c = "7" -> 7
      [] c = "8" -> 8 [] c = "9" -> 9 [] OTHER -> 0

RECURSIVE Decimal(_)
Decimal(s) ==
    IF s = <<>> THEN 0
    ELSE 10 * Decimal(SubSeq(s, 1, Len(s) - 1)) + DigitValue(s[Len(s)])

\* int(s) for a string that passed isdigit(): ValueError unless every
\* character is a decimal digit
int(s) ==
    IF s /= <<>> /\ \A i \in 1..Len(s) : s[i] \in AsciiDigits
    THEN [raised |-> NoExc, n |-> Decimal(s)]
    ELSE [raised |-> "ValueError", n |-> 0]

UpperChar(c) ==
    CASE c = "u" -> "U" [] c = "k" -> "K" [] c = "x" -> "X" [] OTHER -> c

\* str.upper()
upper(s) == [i \in 1..Len(s) |-> UpperChar(s[i])]

RECURSIVE Flatten(_)
Flatten(ss) == IF ss = <<>> THEN <<>> ELSE Head(ss) \o Flatten(Tail(ss))

\* a for loop over enumerate(records, start=1) whose body appends to issues:
\* the first row whose body raises ends the loop with that exception
ForEach(rows) ==
    LET bad == {i \in 1..Len(rows) : rows[i].raised /= NoExc}
    IN  IF bad /= {} THEN Raise(rows[SetMin(bad)].raised)
        ELSE Ok(Flatten([i \in 1..Len(rows) |-> rows[i].issues]))

(***************************************************************************)
(* check_invalid_emails                                                    *)
(***************************************************************************)
email_row(idx, record) ==
    LET got == Get(record, "email", PyStr(<<>>))
    IN  IF got.t /= "str" THEN Raise("AttributeError")
        ELSE
        LET email == strip(got.s)
            at == SetMin({i \in 1..Len(email) : email[i] = "@"})
            local == SubSeq(email, 1, at - 1)
            domain == SubSeq(email, at + 1, Len(email))
        IN  IF email = <<>> THEN
                Ok(<<[row |-> idx, field |-> "email", value |-> PyStr(email),
                      reason |-> "email missing or empty"]>>)
            ELSE IF count(email, "@") /= 1 THEN
                Ok(<<[row |-> idx, field |-> "email", value |-> PyStr(email),
                      issue |-> "missing or multiple @",
                      severity |-> "warning"]>>)
            ELSE IF local = <<>> \/ domain = <<>> THEN
                Ok(<<[row |-> idx, field |-> "email", value |-> PyStr(email),
                      reason |-> "Invalid local or domain part",
                      severity |-> "warning"]>>)
            ELSE IF count(domain, ".") = 0 THEN
                Ok(<<[row |-> idx, field |-> "email", value |-> PyStr(email),
                      reason |-> "domain missing dot",
                      severity |-> "warning"]>>)
            ELSE IF domain[1] = "." \/ domain[Len(domain)] = "." THEN
                Ok(<<[row |-> idx, field |-> "email", value |-> PyStr(email),
                      reason |-> "domain starts or ends with a dot",
                      severity |-> "warning"]>>)
            ELSE Ok(<<>>)

check_invalid_emails(recs) ==
    ForEach([idx \in 1..Len(recs) |-> email_row(idx, recs[idx])])

(***************************************************************************)
(* check_invalid_ages                                                      *)
(***************************************************************************)
age_row(idx, record) ==
    LET got == Get(record, "age", PyStr(<<>>))
    IN  IF got.t /= "str" THEN Raise("AttributeError")
        ELSE
        LET age_raw == strip(got.s)
            age == int(age_raw)
        IN  IF age_raw = <<>> THEN
                Ok(<<[row |-> idx, field |-> "age", value |-> PyStr(age_raw),
                      reason |-> "age missing", severity |-> "warning"]>>)
            ELSE IF ~isdigit(age_raw) THEN
                Ok(<<[row |-> idx, field |-> "age", value |-> PyStr(age_raw),
                      reason |-> "age not numerical",
                      severity |-> "warning"]>>)
            ELSE IF age.raised /= NoExc THEN Raise(age.raised)
            ELSE IF age.n < 1 \/ age.n > 120 THEN
                Ok(<<[row |-> idx, field |-> "age", value |-> PyInt(age.n),
                      reason |-> "age out of range",
                      severity |-> "warning"]>>)
            ELSE Ok(<<>>)

check_invalid_ages(recs) ==
    ForEach([idx \in 1..Len(recs) |-> age_row(idx, recs[idx])])

(***************************************************************************)
(* resolve_country and check_invalid_countries                             *)
(***************************************************************************)
UK_ALIASES ==
    { <<"U", "K">>, <<"U", ".", "K", ".">>,
      <<"U", "N", "I", "T", "E", "D", " ", "K", "I", "N", "G", "D", "O", "M">> }

\* the names and codes pycountry.countries.lookup() finds, among the
\* upper-cased strings of the model
KnownCountries == { <<"G", "B">>, <<"K", "U">> }

\* pycountry.countries.lookup(raw): a country, or LookupError
CountryLookup(raw) ==
    IF raw \in KnownCountries THEN [raised |-> NoExc, found |-> TRUE]
    ELSE [raised |-> "LookupError", found |-> FALSE]

\* TRUE when a canonical name is returned, FALSE when None is returned
resolve_country(value) ==
    IF value.t /= "str" \/ value.s = <<>> THEN FALSE
    ELSE LET raw == upper(strip(value.s))
         IN  IF raw \in UK_ALIASES THEN TRUE
             ELSE CountryLookup(raw).raised = NoExc

country_row(idx, record) ==
    LET raw_country == Get(record, "country", None)
        resolved == resolve_country(raw_country)
    IN  IF ~resolved THEN
            Ok(<<[row |-> idx, field |-> "country", value |-> raw_country,
                  reason |-> "country missing or null",
                  severity |-> "warning"]>>)
        ELSE Ok(<<>>)

check_invalid_countries(recs) ==
    ForEach([idx \in 1..Len(recs) |-> country_row(idx, recs[idx])])

(***************************************************************************)
(* check_invalid_signup_dates                                              *)
(***************************************************************************)
AllDigits(p) == \A i \in 1..Len(p) : p[i] \in AsciiDigits

\* the regular expression of %d: 3[0-1]|[1-2]\d|0[1-9]|[1-9]| [1-9]
MatchDay(p) ==
    \/ Len(p) = 1 /\ p[1] \in AsciiDigits \ {"0"}
    \/ Len(p) = 2 /\ p[1] \in {"0", " "} /\ p[2] \in AsciiDigits \ {"0"}
    \/ Len(p) = 2 /\ p[1] \in {"1", "2"} /\ p[2] \in AsciiDigits
    \/ Len(p) = 2 /\ p[1] = "3" /\ p[2] \in {"0", "1"}

\* the regular expression of %m: 1[0-2]|0[1-9]|[1-9]
MatchMonth(p) ==
    \/ Len(p) = 1 /\ p[1] \in AsciiDigits \ {"0"}
    \/ Len(p) = 2 /\ p[1] = "0" /\ p[2] \in AsciiDigits \ {"0"}
    \/ Len(p) = 2 /\ p[1] = "1" /\ p[2] \in {"0", "1", "2"}

\* the regular expression of %Y: \d\d\d\d
MatchYear4(p) == Len(p) = 4 /\ AllDigits(p)

\* the regular expression of %y: \d\d
MatchYear2(p) == Len(p) = 2 /\ AllDigits(p)

IsLeap(y) == (y % 4 = 0 /\ y % 100 /= 0) \/ y % 400 = 0

DaysInMonth(y, m) ==
    IF m = 2 THEN (IF IsLeap(y) THEN 29 ELSE 28)
    ELSE IF m \in {4, 6, 9, 11} THEN 30 ELSE 31

\* datetime.date(y, m, d): ValueError outside the calendar
ValidDate(y, m, d) ==
    y >= 1 /\ y <= 9999 /\ m >= 1 /\ m <= 12 /\ d >= 1 /\ d <= DaysInMonth(y, m)

NoDate == [ok |-> FALSE, y |-> 0, m |-> 0, d |-> 0]

MkDate(y, m, d) ==
    IF ValidDate(y, m, d) THEN [ok |-> TRUE, y |-> y, m |-> m, d |-> d]
    ELSE NoDate

\* the three parts of a string with exactly two "/", else <<>>
SplitSlash(s) ==
    LET at == {i \in 1..Len(s) : s[i] = "/"}
        a == SetMin(at)
        b == SetMax(at)
    IN  IF Cardinality(at) /= 2 THEN <<>>
        ELSE <<SubSeq(s, 1, a - 1), SubSeq(s, a + 1, b - 1),
               SubSeq(s, b + 1, Len(s))>>

\* datetime.strptime(s, "%d/%m/%Y").date(); ok = FALSE stands for ValueError
ParseDMY(s) ==
    LET p == SplitSlash(s)
    IN  IF p /= <<>> /\ MatchDay(p[1]) /\ MatchMonth(p[2]) /\ MatchYear4(p[3])
        THEN MkDate(Decimal(p[3]), Decimal(p[2]), Decimal(p[1]))
        ELSE NoDate

\* %y: 00..68 are 2000..2068, 69..99 are 1969..1999
Year2(n) == IF n < 69 THEN 2000 + n ELSE 1900 + n

\* datetime.strptime(s, "%y/%m/%d").date(); ok = FALSE stands for ValueError
ParseYMD(s) ==
    LET p == SplitSlash(s)
    IN  IF p /= <<>> /\ MatchYear2(p[1]) /\ MatchMonth(p[2]) /\ MatchDay(p[3])
        THEN MkDate(Year2(Decimal(p[1])), Decimal(p[2]), Decimal(p[3]))
        ELSE NoDate

\* the loop over accepted_formats: the first format that parses wins
ParseAccepted(s) ==
    IF ParseDMY(s).ok THEN ParseDMY(s) ELSE ParseYMD(s)

\* parsed_date > today
DateAfter(a, b) ==
    \/ a.y > b.y
    \/ a.y = b.y /\ a.m > b.m
    \/ a.y = b.y /\ a.m = b.m /\ a.d > b.d

signup_row(idx, record, now) ==
    LET got == Get(record, "signup_date", PyStr(<<>>))
    IN  IF got.t /= "str" THEN Raise("AttributeError")
        ELSE
        LET raw_date == strip(got.s)
            parsed_date == ParseAccepted(raw_date)
        IN  IF raw_date = <<>> THEN
                Ok(<<[row |-> idx, field |-> "signup_date",
                      value |-> PyStr(raw_date),
                      reason |-> "signup date missing or empty",
                      severity |-> "warning"]>>)
            ELSE IF ~parsed_date.ok THEN
                Ok(<<[row |-> idx, field |-> "signup_date",
                      value |-> PyStr(raw_date),
                      reason |-> "Invalid date format",
                      severity |-> "warning"]>>)
            ELSE IF DateAfter(parsed_date, now) THEN
                Ok(<<[row |-> idx, field |-> "signup_date",
                      value |-> PyStr(raw_date),
                      reason |-> "signup_date is in the future",
                      severity |-> "warning"]>>)
            ELSE Ok(<<>>)

check_invalid_signup_dates(recs, now) ==
    ForEach([idx \in 1..Len(recs) |-> signup_row(idx, recs[idx], now)])

(***************************************************************************)
(* Severity aggregator                                                     *)
(***************************************************************************)
\* SEVERITY_RANK.get(issue.get("severity", "warning"), 0)
RankOf(issue) == Get(SEVERITY_RANK, Get(issue, "severity", "warning"), 0)

\* a slip: keeps the issues whose rank equals the threshold's
filter_issues_ExactRank(issues, threshold) ==
    LET Keep(issue) == RankOf(issue) = SEVERITY_RANK[threshold]
    IN  SelectSeq(issues, Keep)

filter_issues_by_severity(issues, threshold) ==
    LET threshold_rank == SEVERITY_RANK[threshold]
        Keep(issue) == RankOf(issue) >= threshold_rank
    IN  SelectSeq(issues, Keep)

\* a slip: an issue without a severity key read as info
CountedAs_DefaultInfo(issue) == Get(issue, "severity", "info")

\* the severity the counting loop reads for an issue
CountedAs(issue) == Get(issue, "severity", "warning")

\* a slip: a severity that is no key of counts goes to warning
count_issues_UnknownAsWarning(issues) ==
    [level \in Levels |->
        Cardinality({i \in 1..Len(issues) :
            (IF CountedAs(issues[i]) \in Levels THEN CountedAs(issues[i])
             ELSE "warning") = level})]

count_issues_by_severity(issues) ==
    [level \in Levels |->
        Cardinality({i \in 1..Len(issues) : CountedAs(issues[i]) = level})]

build_summary(recs, issues) ==
    [total_records |-> Len(recs),
     total_issues |-> Len(issues),
     severity_counts |-> count_issues_by_severity(issues)]

(***************************************************************************)
(* Exporters                                                               *)
(***************************************************************************)
NoFile == [written |-> FALSE]

\* i.get(key) as csv.DictWriter writes it: None becomes an empty cell
CsvCell(issue, key) == IF key \in DOMAIN issue THEN issue[key] ELSE ""

\* a slip: no early return, a header-only file for an empty list
export_csv_NoEmptyCheck(issues) ==
    [written |-> TRUE,
     header |-> <<"row", "field", "value", "reason">>,
     rows |-> [k \in 1..Len(issues) |->
                 [row |-> issues[k].row,
                  field |-> CsvCell(issues[k], "field"),
                  value |-> Get(issues[k], "value", None),
                  reason |-> CsvCell(issues[k], "reason")]]]

export_csv(issues) ==
    IF issues = <<>> THEN NoFile
    ELSE [written |-> TRUE,
          header |-> <<"row", "field", "value", "reason">>,
          rows |-> [k \in 1..Len(issues) |->
                      [row |-> issues[k].row,
                       field |-> CsvCell(issues[k], "field"),
                       value |-> Get(issues[k], "value", None),
                       reason |-> CsvCell(issues[k], "reason")]]]

export_json(issues, summ) ==
    [written |-> TRUE, summary |-> summ, issues |-> issues]

(***************************************************************************)
(* run_all_checks and determine_exit_code                                  *)
(***************************************************************************)
\* a slip: the age check runs before the email check
run_all_checks_AgeFirst(recs, now) ==
    LET e == check_invalid_emails(recs)
        a == check_invalid_ages(recs)
        c == check_invalid_countries(recs)
        d == check_invalid_signup_dates(recs, now)
    IN  IF a.raised /= NoExc THEN a
        ELSE IF e.raised /= NoExc THEN e
        ELSE IF c.raised /= NoExc THEN c
        ELSE IF d.raised /= NoExc THEN d
        ELSE Ok(a.issues \o e.issues \o c.issues \o d.issues)

run_all_checks(recs, now) ==
    LET e == check_invalid_emails(recs)
        a == check_invalid_ages(recs)
        c == check_invalid_countries(recs)
        d == check_invalid_signup_dates(recs, now)
    IN  IF e.raised /= NoExc THEN e
        ELSE IF a.raised /= NoExc THEN a
        ELSE IF c.raised /= NoExc THEN c
        ELSE IF d.raised /= NoExc THEN d
        ELSE Ok(e.issues \o a.issues \o c.issues \o d.issues)

\* a slip: the fail-on-warning test comes after the plain one, never taken
determine_exit_code_FlagShadowed(summ, issues, a) ==
    LET blocking == filter_issues_by_severity(issues, a.severity_threshold)
    IN  IF summ.total_records = 0 THEN EXIT_OK
        ELSE IF blocking /= <<>> THEN EXIT_ISSUES_FOUND
        ELSE IF blocking /= <<>> /\ a.fail_on_warning THEN EXIT_WARNING
        ELSE EXIT_OK

determine_exit_code(summ, issues, a) ==
    LET blocking == filter_issues_by_severity(issues, a.severity_threshold)
    IN  IF summ.total_records = 0 THEN EXIT_OK
        ELSE IF blocking /= <<>> /\ a.fail_on_warning THEN EXIT_WARNING
        ELSE IF blocking /= <<>> THEN EXIT_ISSUES_FOUND
        ELSE EXIT_OK

(***************************************************************************)
(* Inputs: command lines, input files, the clock                           *)
(***************************************************************************)
Args ==
    [output_csv : BOOLEAN, output_json : BOOLEAN, fail_on_warning : BOOLEAN,
     severity_threshold : Levels, quiet : BOOLEAN]

DefaultArgs ==
    [output_csv |-> FALSE, output_json |-> FALSE, fail_on_warning |-> FALSE,
     severity_threshold |-> "warning", quiet |-> FALSE]

Today == [ok |-> TRUE, y |-> 2026, m |-> 1, d |-> 15]

RECURSIVE SeqsUpTo(_, _)
SeqsUpTo(S, n) ==
    IF n = 0 THEN {<<>>}
    ELSE LET shorter == SeqsUpTo(S, n - 1)
         IN  shorter \cup {Append(q, x) : q \in {r \in shorter : Len(r) = n - 1}, x \in S}

\* a data row of a CSV file under the header email,age,country,signup_date
Row(e, a, c, d) == [email |-> e, age |-> a, country |-> c, signup_date |-> d]

GoodEmail == PyStr(<<"a", "@", "a", ".", "a">>)

GoodDate == PyStr(<<"0", "1", "/", "0", "2", "/", "2", "0", "2", "0">>)

CsvRows ==
    { Row(GoodEmail, PyStr(<<"1">>), PyStr(<<"G", "B">>), GoodDate),
      Row(PyStr(<<"a", "@", "@", "a">>), PyStr(<<"1", "2", "0">>),
          PyStr(<<"u", "k">>), PyStr(<<"2", "0", "/", "0", "1", "/", "0", "2">>)),
      Row(PyStr(<<>>), PyStr(<<"0">>), PyStr(<<"x", "x">>),
          PyStr(<<"3", "1", "/", "0", "1", "/", "2", "0", "9", "9">>)),
      Row(PyStr(<<"@", "a", ".", "a">>), PyStr(<<"x">>), PyStr(<<" ", "U", ".", "K", ".">>),
          PyStr(<<"3", "1", "/", "0", "2", "/", "2", "0", "2", "0">>)),
      Row(PyStr(<<"a", "@", "a">>), PyStr(<<"1", "2", "1">>), PyStr(<<>>),
          PyStr(<<"a">>)),
      Row(PyStr(<<"a", "@", ".", "a">>), PyStr(<<" ", "7", " ">>), PyStr(<<"G", "B">>),
          PyStr(<<" ">>)),
      \* age made of a character isdigit() accepts and int() rejects
      Row(GoodEmail, PyStr(<<"sup2">>), PyStr(<<"G", "B">>), GoodDate),
      \* data rows shorter than the header: DictReader stores None
      Row(GoodEmail, PyStr(<<"5">>), PyStr(<<"G", "B">>), None),
      Row(GoodEmail, None, None, None) }

\* header lines: all four columns, or a file without the last two
Headers == { {"email", "age", "country", "signup_date"}, {"email", "age"} }

\* the header as written in the file: upper case and padded
RawKey(k) ==
    CASE k = "email" -> "Email" [] k = "age" -> " AGE "
      [] k = "country" -> "Country" [] OTHER -> " signup_date"

\* k.strip().lower()
NormKey(raw) ==
    CASE raw = "Email" -> "email" [] raw = " AGE " -> "age"
      [] raw = "Country" -> "country" [] raw = " signup_date" -> "signup_date"
      [] OTHER -> raw

\* what csv.DictReader yields for a data row under a header
RawRow(row, header) == [raw \in {RawKey(k) : k \in header} |-> row[NormKey(raw)]]

InputFiles ==
    { [status |-> "ok", rows |-> rows] :
        rows \in UNION { SeqsUpTo({RawRow(r, h) : r \in CsvRows}, MaxRecords) :
                            h \in Headers } }
    \cup { [status |-> st, rows |-> <<>>] : st \in {"missing", "malformed"} }

\* load_records: open() raises for a missing file, the key normalisation
\* raises for a row longer than the header (DictReader stores it under None)
load_records(file) ==
    IF file.status = "missing" THEN [raised |-> "FileNotFoundError", records |-> <<>>]
    ELSE IF file.status = "malformed" THEN [raised |-> "AttributeError", records |-> <<>>]
    ELSE [raised |-> NoExc,
          records |-> [i \in 1..Len(file.rows) |->
                         [k \in {NormKey(raw) : raw \in DOMAIN file.rows[i]} |->
                            file.rows[i][CHOOSE raw \in DOMAIN file.rows[i] : NormKey(raw) = k]]]]

(***************************************************************************)
(* The run: main() under the handler of the __main__ block                 *)
(***************************************************************************)
Init ==
    /\ pc = "load"
    /\ input \in InputFiles
    /\ args \in Args
    /\ today = Today
    /\ records = <<>>
    /\ all_issues = <<>>
    /\ summary = build_summary(<<>>, <<>>)
    /\ filtered_issues = <<>>
    /\ csv_file = NoFile
    /\ json_file = NoFile
    /\ stdout = <<>>
    /\ exit_code = <<>>
    /\ raised_in = NoExc
    /\ called = "main"
    /\ ret = <<>>

\* records = load_records(args.input); print("Loaded records: ...")
Load ==
    /\ pc = "load"
    /\ LET r == load_records(input)
       IN  IF r.raised /= NoExc
           THEN /\ pc' = "except"
                /\ raised_in' = "load_records"
                /\ UNCHANGED <<records, stdout>>
           ELSE /\ pc' = "checks"
                /\ records' = r.records
                /\ stdout' = Append(stdout, <<"Loaded records", Len(r.records)>>)
                /\ UNCHANGED raised_in
    /\ UNCHANGED <<input, args, today, all_issues, summary, filtered_issues,
                   csv_file, json_file, exit_code, called, ret>>

\* all_issues = run_all_checks(records)
RunAllChecks ==
    /\ pc = "checks"
    /\ LET r == run_all_checks(records, today)
       IN  IF r.raised /= NoExc
           THEN /\ pc' = "except"
                /\ raised_in' = "run_all_checks"
                /\ UNCHANGED all_issues
           ELSE /\ pc' = "summary"
                /\ all_issues' = r.issues
                /\ UNCHANGED raised_in
    /\ UNCHANGED <<input, args, today, records, summary, filtered_issues,
                   csv_file, json_file, stdout, exit_code, called, ret>>

\* summary = build_summary(records, all_issues)
BuildSummary ==
    /\ pc = "summary"
    /\ summary' = build_summary(records, all_issues)
    /\ pc' = "filter"
    /\ UNCHANGED <<input, args, today, records, all_issues, filtered_issues,
                   csv_file, json_file, stdout, exit_code, raised_in, called, ret>>

\* filtered_issues = filter_issues_by_severity(all_issues, threshold)
Filter ==
    /\ pc = "filter"
    /\ filtered_issues' = filter_issues_by_severity(all_issues, args.severity_threshold)
    /\ pc' = "export"
    /\ UNCHANGED <<input, args, today, records, all_issues, summary,
                   csv_file, json_file, stdout, exit_code, raised_in, called, ret>>

\* handle_exports(filtered_issues, summary, args)
HandleExports ==
    /\ pc = "export"
    /\ csv_file' = IF args.output_csv THEN export_csv(filtered_issues) ELSE csv_file
    /\ json_file' = IF args.output_json THEN export_json(filtered_issues, summary)
                    ELSE json_file
    /\ pc' = "print"
    /\ UNCHANGED <<input, args, today, records, all_issues, summary,
                   filtered_issues, stdout, exit_code, raised_in, called, ret>>

\* if not args.quiet: print_summary(summary)
PrintSummary ==
    /\ pc = "print"
    /\ stdout' = IF args.quiet THEN stdout
                 ELSE stdout \o << <<"Total records", summary.total_records>>,
                                   <<"Total issues", summary.total_issues>>,
                                   <<"info", summary.severity_counts["info"]>>,
                                   <<"warning", summary.severity_counts["warning"]>>,
                                   <<"error", summary.severity_counts["error"]>> >>
    /\ pc' = "exit"
    /\ UNCHANGED <<input, args, today, records, all_issues, summary,
                   filtered_issues, csv_file, json_file, exit_code, raised_in,
                   called, ret>>

\* return determine_exit_code(...); sys.exit(exit_code)
Exit ==
    /\ pc = "exit"
    /\ exit_code' = <<determine_exit_code(summary, filtered_issues, args)>>
    /\ pc' = "done"
    /\ UNCHANGED <<input, args, today, records, all_issues, summary,
                   filtered_issues, csv_file, json_file, stdout, raised_in,
                   called, ret>>

\* except Exception as e: print(f"ERROR: {e}"); sys.exit(EXIT_INTERNAL_ERROR)
Except ==
    /\ pc = "except"
    /\ stdout' = Append(stdout, <<"ERROR", 0>>)
    /\ exit_code' = <<EXIT_INTERNAL_ERROR>>
    /\ pc' = "done"
    /\ UNCHANGED <<input, args, today, records, all_issues, summary,
                   filtered_issues, csv_file, json_file, raised_in, called, ret>>

Next ==
    \/ Load
    \/ RunAllChecks
    \/ BuildSummary
    \/ Filter
    \/ HandleExports
    \/ PrintSummary
    \/ Exit
    \/ Except

Spec == Init /\ [][Next]_vars

(***************************************************************************)
(* The severity aggregator and the exit code resolver on their own:        *)
(* any issue list, any threshold, any flag.                                *)
(***************************************************************************)
\* an issue dict with the given severity; "unset" has no severity key
Issue(row, sev) ==
    IF sev = "unset"
    THEN [row |-> row, field |-> "email", value |-> PyStr(<<>>), reason |-> "r"]
    ELSE [row |-> row, field |-> "age", value |-> PyStr(<<>>), reason |-> "r",
          severity |-> sev]

IssuePool ==
    {Issue(1, sev) : sev \in {"unset", "info", "warning", "error", "critical"}}
    \cup {Issue(2, sev) : sev \in {"warning", "error"}}

InitSeverity ==
    /\ pc = "call"
    /\ input = [status |-> "ok", rows |-> <<>>]
    /\ args \in {a \in Args : ~a.output_csv /\ ~a.output_json /\ ~a.quiet}
    /\ today = Today
    /\ records = <<>>
    /\ all_issues \in SeqsUpTo(IssuePool, MaxIssues)
    /\ \E n \in 0..MaxRecords :
          summary = [total_records |-> n, total_issues |-> Len(all_issues),
                     severity_counts |-> count_issues_by_severity(all_issues)]
    /\ filtered_issues = <<>>
    /\ csv_file = NoFile
    /\ json_file = NoFile
    /\ stdout = <<>>
    /\ exit_code = <<>>
    /\ raised_in = NoExc
    /\ called = "nothing"
    /\ ret = <<>>

Return(fn, value) ==
    /\ pc = "call"
    /\ pc' = "returned"
    /\ called' = fn
    /\ ret' = value
    /\ UNCHANGED <<input, args, today, records, all_issues, summary,
                   filtered_issues, csv_file, json_file, stdout, exit_code,
                   raised_in>>

CallFilter ==
    Return("filter_issues_by_severity",
           filter_issues_by_severity(all_issues, args.severity_threshold))

CallCount ==
    Return("count_issues_by_severity", count_issues_by_severity(all_issues))

CallDetermineExitCode ==
    Return("determine_exit_code", determine_exit_code(summary, all_issues, args))

NextSeverity ==
    \/ CallFilter
    \/ CallCount
    \/ CallDetermineExitCode

SpecSeverity == InitSeverity /\ [][NextSeverity]_vars

(***************************************************************************)
(* The validators on their own: one record, every short field string.      *)
(***************************************************************************)
EmailChars == {"a", "@", ".", " "}

AgeChars == {"0", "1", "2", "x", " ", "sup2"}

CountryChars == {"u", "K", "G", "B", " "}

DateStrings ==
    { <<"3", "1", "/", "0", "1", "/", "2", "0", "9", "9">>,
      <<"0", "1", "/", "0", "2", "/", "2", "0", "2", "0">>,
      <<"2", "9", "/", "0", "2", "/", "2", "0", "2", "1">>,
      <<"2", "6", "/", "0", "1", "/", "1", "6">>,
      <<"2", "6", "/", "0", "1", "/", "1", "5">>,
      <<"2", "0", "/", "1", "/", " ", "5">>,
      <<"0", "1", "/", "0", "1", "/", "0", "0", "0", "0">>,
      <<"1", "/", "2", "/", "3", "/", "4">> }
    \cup SeqsUpTo({"1", "/", " "}, MaxLen)

FieldInputs ==
    {[email |-> PyStr(s)] : s \in SeqsUpTo(EmailChars, MaxLen)}
    \cup {[age |-> PyStr(s)] : s \in SeqsUpTo(AgeChars, MaxLen)}
    \cup {[country |-> PyStr(s)] : s \in SeqsUpTo(CountryChars, MaxLen)}
    \cup {[signup_date |-> PyStr(s)] : s \in DateStrings}
    \* the last cell of a short data row
    \cup { [age |-> PyStr(<<"5">>), email |-> None],
           [email |-> GoodEmail, age |-> None],
           [email |-> GoodEmail, country |-> None],
           [email |-> GoodEmail, signup_date |-> None] }

InitFields ==
    /\ pc = "call"
    /\ input = [status |-> "ok", rows |-> <<>>]
    /\ args = DefaultArgs
    /\ today = Today
    /\ \E r \in FieldInputs : records = <<r>>
    /\ all_issues = <<>>
    /\ summary = build_summary(<<>>, <<>>)
    /\ filtered_issues = <<>>
    /\ csv_file = NoFile
    /\ json_file = NoFile
    /\ stdout = <<>>
    /\ exit_code = <<>>
    /\ raised_in = NoExc
    /\ called = "nothing"
    /\ ret = <<>>

CallCheckEmails == Return("check_invalid_emails", check_invalid_emails(records))

CallCheckAges == Return("check_invalid_ages", check_invalid_ages(records))

CallCheckCountries ==
    Return("check_invalid_countries", check_invalid_countries(records))

CallCheckSignupDates ==
    Return("check_invalid_signup_dates", check_invalid_signup_dates(records, today))

NextFields ==
    \/ CallCheckEmails
    \/ CallCheckAges
    \/ CallCheckCountries
    \/ CallCheckSignupDates

SpecFields == InitFields /\ [][NextFields]_vars

(***************************************************************************)
(* Properties                                                              *)
(***************************************************************************)
RECURSIVE IsSubSeq(_, _)
IsSubSeq(a, b) ==
    IF a = <<>> THEN TRUE
    ELSE IF b = <<>> THEN FALSE
    ELSE IF Head(a) = Head(b) THEN IsSubSeq(Tail(a), Tail(b))
    ELSE IsSubSeq(a, Tail(b))

\* the order info < warning < error
LevelOrder(level) ==
    CASE level = "info" -> 1 [] level = "warning" -> 2 [] level = "error" -> 3

\* the severity of an issue, an unset one being a warning
LevelOf(issue) ==
    IF "severity" \in DOMAIN issue THEN issue["severity"] ELSE "warning"

\* the issues of a list that are at or above a threshold
AtOrAbove(issues, threshold) ==
    {i \in 1..Len(issues) :
        /\ LevelOf(issues[i]) \in Levels
        /\ LevelOrder(LevelOf(issues[i])) >= LevelOrder(threshold)}

HowMany(issues, level) ==
    Cardinality({i \in 1..Len(issues) : LevelOf(issues[i]) = level})

\* C1: determine_exit_code returns 0 for zero records whatever the issues
\* and flags; otherwise 5 when an issue is at or above the threshold and
\* fail-on-warning is set, 10 when one is and the flag is not set, 0 when
\* none is; it returns nothing else.
C1_ExitCodePriority ==
    called = "determine_exit_code" =>
        LET blocking == AtOrAbove(all_issues, args.severity_threshold)
        IN  /\ ret \in {0, 5, 10}
            /\ summary.total_records = 0 => ret = 0
            /\ summary.total_records /= 0 /\ blocking /= {} /\ args.fail_on_warning
                  => ret = 5
            /\ summary.total_records /= 0 /\ blocking /= {} /\ ~args.fail_on_warning
                  => ret = 10
            /\ summary.total_records /= 0 /\ blocking = {} => ret = 0

\* zero records with a blocking issue and fail-on-warning set: still 0
C1_Witness ==
    /\ called = "determine_exit_code"
    /\ summary.total_records = 0
    /\ AtOrAbove(all_issues, args.severity_threshold) /= {}
    /\ args.fail_on_warning
    /\ ret = 0

\* C6 as stated: unset and unknown severities are both counted as warning,
\* so the three counts sum to the length of the list.
C6_CountsSumToLength ==
    called = "count_issues_by_severity" =>
        /\ ret["info"] = HowMany(all_issues, "info")
        /\ ret["error"] = HowMany(all_issues, "error")
        /\ ret["warning"] = Len(all_issues) - ret["info"] - ret["error"]
        /\ ret["info"] + ret["warning"] + ret["error"] = Len(all_issues)

\* C6 amended: an issue without a severity key is counted as warning, an
\* issue whose severity is none of info, warning, error is counted nowhere,
\* so the three counts sum to the number of issues with an unset or a known
\* severity.
C6_CountsKnownSeverities ==
    called = "count_issues_by_severity" =>
        LET unknown == {i \in 1..Len(all_issues) : LevelOf(all_issues[i]) \notin Levels}
            unset == {i \in 1..Len(all_issues) : "severity" \notin DOMAIN all_issues[i]}
            warn == {i \in 1..Len(all_issues) :
                        /\ "severity" \in DOMAIN all_issues[i]
                        /\ all_issues[i]["severity"] = "warning"}
        IN  /\ ret["info"] = HowMany(all_issues, "info")
            /\ ret["error"] = HowMany(all_issues, "error")
            /\ ret["warning"] = Cardinality(warn) + Cardinality(unset)
            /\ ret["info"] + ret["warning"] + ret["error"]
                  = Len(all_issues) - Cardinality(unknown)

\* a list with an unset, an unknown and an error severity
C6_Witness ==
    /\ called = "count_issues_by_severity"
    /\ \E i \in 1..Len(all_issues) : "severity" \notin DOMAIN all_issues[i]
    /\ \E i \in 1..Len(all_issues) : LevelOf(all_issues[i]) \notin Levels
    /\ ret["warning"] = 1
    /\ ret["error"] = 1

\* C7: for thresholds t1 <= t2 the result for t2 is a sub-list of the result
\* for t1, so raising the threshold never lengthens the result.
C7_FilterMonotonic ==
    called = "filter_issues_by_severity" =>
        \A t2 \in Levels :
            LevelOrder(args.severity_threshold) <= LevelOrder(t2) =>
                /\ IsSubSeq(filter_issues_by_severity(all_issues, t2), ret)
                /\ Len(filter_issues_by_severity(all_issues, t2)) <= Len(ret)

\* raising info to error drops issues; the list has unset and unknown ones
C7_Witness ==
    /\ called = "filter_issues_by_severity"
    /\ args.severity_threshold = "info"
    /\ \E i \in 1..Len(all_issues) : "severity" \notin DOMAIN all_issues[i]
    /\ \E i \in 1..Len(all_issues) : LevelOf(all_issues[i]) \notin Levels
    /\ filter_issues_by_severity(all_issues, "error") /= <<>>
    /\ Len(filter_issues_by_severity(all_issues, "error")) < Len(ret)
    /\ Len(ret) < Len(all_issues)

\* the stages of main() that come after the load, the checks, the exports
AfterChecks == {"summary", "filter", "export", "print", "exit"}

AfterExports == {"print", "exit"}

\* the run got past the given stages, or ended by returning from main()
Past(stages) == pc \in stages \/ (pc = "done" /\ raised_in = NoExc)

\* C2: a run whose load fails ends with exit code 20, and runs no validator,
\* export or summary step before it exits.
C2_LoadFailureExitsInputError ==
    (pc = "done" /\ raised_in = "load_records") =>
        /\ exit_code = <<EXIT_INPUT_ERROR>>
        /\ exit_code /= <<EXIT_INTERNAL_ERROR>>
        /\ all_issues = <<>>
        /\ ~csv_file.written
        /\ ~json_file.written
        /\ \A i \in 1..Len(stdout) : stdout[i][1] \notin {"Total records", "Total issues"}

\* C3: on every record list the loader produces the validators return issue
\* lists, so a run whose load succeeded never ends through the handler of
\* unexpected exceptions.
C3_ValidatorsNeverRaise ==
    input.status = "ok" =>
        /\ raised_in /= "run_all_checks"
        /\ pc = "done" => exit_code /= <<EXIT_INTERNAL_ERROR>>

\* C5 as stated: the summary's severity_counts count the levels of the
\* severity-filtered issues; total_issues counts all issues.
C5_SummaryCountsFiltered ==
    Past(AfterExports) =>
        /\ \A level \in Levels :
              summary.severity_counts[level] = HowMany(filtered_issues, level)
        /\ summary.total_issues = Len(all_issues)

\* C5 amended: the summary's severity_counts count the levels of all issues
\* before filtering (an issue without severity as warning), the list that
\* total_issues counts, whatever the threshold; they are the counts of the
\* filtered issues when the threshold is info or warning.
C5_SummaryCountsUnfiltered ==
    Past(AfterExports) =>
        /\ \A level \in Levels :
              summary.severity_counts[level] = HowMany(all_issues, level)
        /\ summary.total_issues = Len(all_issues)
        /\ json_file.written => json_file.summary = summary
        /\ args.severity_threshold \in {"info", "warning"} =>
              \A level \in Levels :
                 summary.severity_counts[level] = HowMany(filtered_issues, level)

\* threshold error filters every issue out, the summary still counts them
C5_Witness ==
    /\ pc = "done"
    /\ raised_in = NoExc
    /\ args.severity_threshold = "error"
    /\ args.output_json
    /\ filtered_issues = <<>>
    /\ summary.severity_counts["warning"] >= 2
    /\ \E i \in 1..Len(all_issues) : "severity" \notin DOMAIN all_issues[i]

\* C8: after the export step the CSV file exists exactly when --output-csv
\* was given and the filtered issue list is non-empty, the JSON file exists
\* exactly when --output-json was given and holds the filtered issues (an
\* empty array for an empty list); no exit code is determined before the
\* exports are done.
C8_ExportsWritten ==
    /\ Past(AfterExports) =>
          /\ csv_file.written <=> (args.output_csv /\ filtered_issues /= <<>>)
          /\ csv_file.written => Len(csv_file.rows) = Len(filtered_issues)
          /\ json_file.written <=> args.output_json
          /\ json_file.written => json_file.issues = filtered_issues
    /\ pc \in {"load", "checks", "summary", "filter", "export"} =>
          /\ exit_code = <<>>
          /\ ~csv_file.written
          /\ ~json_file.written
    /\ (exit_code /= <<>> /\ raised_in = NoExc) => Past(AfterExports)

\* both paths given, records loaded, every issue filtered out: no CSV file,
\* a JSON file with an empty issues array
C8_Witness ==
    /\ pc = "done"
    /\ raised_in = NoExc
    /\ args.output_csv
    /\ args.output_json
    /\ Len(records) > 0
    /\ all_issues /= <<>>
    /\ filtered_issues = <<>>
    /\ ~csv_file.written
    /\ json_file.written
    /\ json_file.issues = <<>>

\* the place of a validator in run_all_checks
Block(issue) ==
    CASE issue.field = "email" -> 1 [] issue.field = "age" -> 2
      [] issue.field = "country" -> 3 [] issue.field = "signup_date" -> 4

\* C9: the issue sequence is the email, age, country and signup_date
\* validators' outputs in that order, each block in increasing row order
\* with rows in 1..N; the filtered sequence is a subsequence of it; the
\* records stay as loaded.
C9_IssueOrder ==
    Past(AfterChecks) =>
        /\ all_issues = check_invalid_emails(records).issues
                        \o check_invalid_ages(records).issues
                        \o check_invalid_countries(records).issues
                        \o check_invalid_signup_dates(records, today).issues
        /\ \A i \in 1..Len(all_issues) : all_issues[i].row \in 1..Len(records)
        /\ \A i, j \in 1..Len(all_issues) :
              i < j =>
                 \/ Block(all_issues[i]) < Block(all_issues[j])
                 \/ /\ Block(all_issues[i]) = Block(all_issues[j])
                    /\ all_issues[i].row < all_issues[j].row
        /\ IsSubSeq(filtered_issues, all_issues)
        /\ Past({"export"} \cup AfterExports) =>
              \A i \in 1..Len(all_issues) :
                 (LevelOf(all_issues[i]) \in Levels
                  /\ LevelOrder(LevelOf(all_issues[i]))
                        >= LevelOrder(args.severity_threshold))
                 => \E k \in 1..Len(filtered_issues) : filtered_issues[k] = all_issues[i]
        /\ records = load_records(input).records

\* two records, issues of all four validators, some of them on row 2
C9_Witness ==
    /\ pc = "done"
    /\ raised_in = NoExc
    /\ Len(records) = 2
    /\ \A b \in 1..4 : \E i \in 1..Len(all_issues) : Block(all_issues[i]) = b
    /\ \E i, j \in 1..Len(all_issues) :
          /\ i < j
          /\ all_issues[i].row = 2
          /\ all_issues[j].row = 1
    /\ filtered_issues = all_issues

(***************************************************************************)
(* Properties of the validators on one record                              *)
(***************************************************************************)
\* the trimmed value of a str field of the record under check
Trimmed(field) == strip(records[1][field].s)

IsStrField(field) ==
    /\ Len(records) = 1
    /\ field \in DOMAIN records[1]
    /\ records[1][field].t = "str"

\* C4: a record whose trimmed email is non-empty and has zero or several
\* "@" gets exactly one issue, of field email and severity warning, whose
\* reason is "missing or multiple @"; every issue of the email validator has
\* the attributes row, field, value and reason.
C4_MultipleAtReason ==
    (called = "check_invalid_emails" /\ ret.raised = NoExc) =>
        /\ \A i \in 1..Len(ret.issues) :
              {"row", "field", "value", "reason"} \subseteq DOMAIN ret.issues[i]
        /\ (IsStrField("email") /\ Trimmed("email") /= <<>>
            /\ count(Trimmed("email"), "@") /= 1) =>
              /\ Len(ret.issues) = 1
              /\ ret.issues[1].field = "email"
              /\ LevelOf(ret.issues[1]) = "warning"
              /\ "severity" \in DOMAIN ret.issues[1]
              /\ "reason" \in DOMAIN ret.issues[1]
              /\ ret.issues[1]["reason"] = "missing or multiple @"

\* C10: the age validator gives a record at most one issue, by the first
\* failing rule: age missing for an empty or absent trimmed age, else age
\* not numerical unless all characters are decimal digits, else age out of
\* range with the parsed integer as value outside 1..120, else no issue;
\* every age issue is a warning.
C10_AgeFirstFailingRule ==
    (called = "check_invalid_ages"
     /\ ("age" \in DOMAIN records[1] => records[1]["age"].t = "str")) =>
        LET age_raw == IF "age" \in DOMAIN records[1] THEN Trimmed("age") ELSE <<>>
            decimal == \A i \in 1..Len(age_raw) : age_raw[i] \in AsciiDigits
            expected ==
                IF age_raw = <<>> THEN <<"age missing">>
                ELSE IF ~decimal THEN <<"age not numerical">>
                ELSE IF Decimal(age_raw) < 1 \/ Decimal(age_raw) > 120
                     THEN <<"age out of range">>
                ELSE <<>>
        IN  /\ ret.raised = NoExc
            /\ Len(ret.issues) = Len(expected)
            /\ \A i \in 1..Len(ret.issues) :
                  /\ ret.issues[i].field = "age"
                  /\ ret.issues[i]["reason"] = expected[i]
                  /\ ret.issues[i]["severity"] = "warning"
                  /\ ret.issues[i].row = 1
                  /\ ret.issues[i].value =
                        IF expected[i] = "age out of range"
                        THEN PyInt(Decimal(age_raw)) ELSE PyStr(age_raw)

====
